---- MODULE Spec2Model ----
(***************************************************************************)
(* HeyMath! report runner (src/test_runner_all.py): the run-plan builder,  *)
(* the main runner loop, the academic-window probe of the Student Quiz     *)
(* Performance Report, the payload normaliser and the manifest.            *)
(*                                                                         *)
(* Text is a sequence of symbols.  A symbol is one character, a group of   *)
(* digits or letters that no operation of the program splits, or one of    *)
(* the placeholder tokens of the templates ("<class>", "<start_date>",     *)
(* ...), which str.replace treats as a unit.  A report name is the         *)
(* sequence of its words (the words are separated by single spaces).       *)
(***************************************************************************)
EXTENDS Integers, Sequences, FiniteSets, TLC

\* ---------------------------------------------------------------- bounds
MaxCatalog == 2
MaxLevels == 2
MaxSections == 2
MaxInvocations == 2
\* the longest field value cleaned, in characters
MaxText == 4
\* the most keys of a response object that is extracted from
MaxKeys == 2

\* ------------------------------------------------------------------ text
\* pat occurs in s at position 1
StartsWith(s, pat) == Len(pat) <= Len(s) /\ SubSeq(s, 1, Len(pat)) = pat

RECURSIVE ReplaceSeq(_, _, _)
\* str.replace(pat, r): leftmost, non-overlapping occurrences (pat is not empty)
ReplaceSeq(s, pat, r) ==
  IF s = <<>> THEN <<>>
  ELSE IF StartsWith(s, pat)
    THEN r \o ReplaceSeq(SubSeq(s, Len(pat) + 1, Len(s)), pat, r)
    ELSE <<Head(s)>> \o ReplaceSeq(Tail(s), pat, r)

\* str.replace(sym, r) for a one-symbol pattern
Replace(s, sym, r) == ReplaceSeq(s, <<sym>>, r)

\* pat in s
Contains(s, pat) == \E i \in 1..(Len(s) - Len(pat) + 1) : SubSeq(s, i, i + Len(pat) - 1) = pat

\* safe_date_for_name: DD/MM/YYYY -> DD-MM-YYYY
safe_date_for_name(d) ==
  Replace(Replace(Replace(d, "/", <<"-">>), "\\", <<"-">>), ":", <<"-">>)

\* str.zfill(2)
Zfill2(c) ==
  IF Len(c) >= 2 THEN c
  ELSE IF Len(c) = 1 THEN <<"0">> \o c
  ELSE <<"0", "0">>

\* c[:2]
Prefix2(c) == SubSeq(c, 1, IF Len(c) < 2 THEN Len(c) ELSE 2)

\* set of the elements of a sequence
Range(s) == {s[i] : i \in DOMAIN s}

\* the prefixes of s of length <= n
Prefixes(s, n) == {SubSeq(s, 1, k) : k \in 0..(IF n < Len(s) THEN n ELSE Len(s))}

\* the subsequences of s of length <= n
SubSeqs(s, n) ==
  {SelectSeq([i \in DOMAIN s |-> IF i \in I THEN <<s[i]>> ELSE <<>>], LAMBDA x : x # <<>>) :
     I \in {J \in SUBSET DOMAIN s : Cardinality(J) <= n}}

\* ----------------------------------------------------------------- dates
\* config["dateRange"]: the configured range, DD/MM/YYYY
START_DATE == <<"01", "/", "04", "/", "2024">>
END_DATE == <<"30", "/", "04", "/", "2024">>
SAFE_START == safe_date_for_name(START_DATE)
SAFE_END == safe_date_for_name(END_DATE)
\* datetime.now().strftime("%d/%m/%Y") at the time of the probe
TODAY == <<"02", "/", "11", "/", "2026">>
\* the academic start a site reports in fromToDate, DD/MM/YY
SITE_START == <<"01", "/", "06", "/", "26">>

\* ----------------------------------------------------------------- names
REPORT_NAME_SECTIONS == <<"Level", "Lessons", "Usage", "Report", "for", "each", "Class">>
SQR == <<"Student", "Quiz", "Performance", "Report">>

TABLE_DATA_REPORTS ==
  << <<"School", "Logins", "Report">>,
     <<"School", "Lessons", "Usage", "Report">>,
     <<"School", "Assignments", "Usage", "Report">>,
     REPORT_NAME_SECTIONS >>

TEACHER_LOGS ==
  << <<"Teacher", "Assignment", "Log", "Quiz">>,
     <<"Teacher", "Assignment", "Log", "Worksheet">>,
     <<"Teacher", "Assignment", "Log", "Prasso">>,
     <<"Teacher", "Assignment", "Log", "Reading">> >>

USAGE_ROLLUPS ==
  << <<"All", "Teachers", "Usage", "Logins">>,
     <<"All", "Teachers", "Usage", "Lesson", "Accessed">>,
     <<"All", "Teachers", "Usage", "Assignments", "assigned">> >>

FIXED_CLASS_REPORTS ==
  << <<"Class", "Login", "Report">>,
     <<"Class", "Lessons", "Report">>,
     <<"Class", "Assignment", "Report">> >>

\* OTHER_REPORTS as the literal list, before the custom "Class ..." names are added
OTHER_REPORTS_FIXED == TEACHER_LOGS \o USAGE_ROLLUPS \o FIXED_CLASS_REPORTS \o <<SQR>>

\* str(name).startswith("Class ")
StartsWithClass(name) == Len(name) >= 2 /\ name[1] = "Class"

\* -------------------------------------------------------- configuration
\* level codes of config["levels"] (heymath_report_portal.py writes {code, name})
L04 == <<"0", "4">>
L5 == <<"5">>
L06 == <<"0", "6">>
\* entries of config["levels"] that carry no code: an object without the key
\* "code", and null; an entry whose code is the empty string is <<>>
LevelNoKey == <<"{}">>
LevelNull == <<"null">>

\* (lv or {}).get("code", "")
CodeOf(lvl) == IF lvl \in {LevelNoKey, LevelNull} THEN <<>> ELSE lvl

\* the levels of the school, in the order the portal lists them
LevelOrder == <<L5, L04, L06>>

\* section codes of the school's Class_Sections cell, as CLASS_CODE_RE finds them
S04A0 == <<"0", "4", "A", "0">>
S05B1 == <<"0", "5", "B", "1">>
S06C2 == <<"0", "6", "C", "2">>
\* the sections of the school, in the order of the sheet
SectionOrder == <<S05B1, S04A0, S06C2>>

\* the subject UUID the portal stores for a level
UuidOf(code) == <<"uuid-">> \o code

\* config["schoolName"], stripped
school_name == <<"D", "P", "S">>

\* parameter templates of the catalog: ok is whether "{" + param_str + "}" is JSON
\* once the placeholders are filled; kv is the object it denotes
TmplClass ==
  [ok |-> TRUE,
   kv |-> [levelSection |-> <<"<class>">>,
           startDate |-> <<"<start_date>">>, endDate |-> <<"<end_date>">>]]
TmplTeacher ==
  [ok |-> TRUE,
   kv |-> [level |-> <<"<class>">>, subject |-> <<"<subject>">>,
           startDate |-> <<"<start_date>">>, endDate |-> <<"<end_date>">>]]
TmplBroken ==
  [ok |-> FALSE, kv |-> [startDate |-> <<"<start_date>">>]]

\* the report definitions a catalog (report_def_final.json) is drawn from
ReportDefs ==
  << [name |-> SQR, method |-> "GET", params |-> TmplClass,
     outputFile |-> <<"S", "Q", "_", "<class>", "_", "<SAFE_START>", "_", "<SAFE_END>", ".csv">>],
    [name |-> TEACHER_LOGS[1], method |-> "POST", params |-> TmplTeacher,
     outputFile |-> <<"T", "Q", "_", "<class>", ".csv">>],
    [name |-> <<"Class", "Attendance", "Report">>, method |-> "GET", params |-> TmplClass,
     outputFile |-> <<>>],
    [name |-> TABLE_DATA_REPORTS[1], method |-> "GET", params |-> TmplBroken,
     outputFile |-> <<"S", "L", "_", "<start_date>", "_", "<end_date>", ".csv">>],
    [name |-> FIXED_CLASS_REPORTS[1], method |-> "GET", params |-> TmplClass,
     outputFile |-> <<"C", "L", "_", "<start_date>", ".csv">>],
    [name |-> REPORT_NAME_SECTIONS, method |-> "get", params |-> TmplClass,
     outputFile |-> <<"L", "U", "_", "<class>", "<start_date>", "<end_date>", ".csv">>] >>

VARIABLES
  reports,             \* the catalog: a sequence of report definitions
  levels,              \* config["levels"]: the sequence of level codes
  subject_map_by_lvl,  \* config["subjectMapByLevel"]: level code -> subject UUID
  NEED_CLASS,          \* bool(config["needClassReports"])
  codes                \* the codes load_sections_and_labels returned (<<>>: not called)

\* str.upper() of an HTTP method
Upper(m) == CASE m = "get" -> "GET" [] m = "post" -> "POST" [] OTHER -> m

\* dict.get(key, default)
DictGet(d, key, default) == IF key \in DOMAIN d THEN d[key] ELSE default

\* selected_levels: the zero-filled codes of the levels that have one
selected_levels ==
  {Zfill2(CodeOf(levels[i])) : i \in {j \in DOMAIN levels : CodeOf(levels[j]) # <<>>}}

\* SECTION_CODES: the discovered codes, filtered by level when levels are selected
SECTION_CODES ==
  IF NEED_CLASS
  THEN SelectSeq(codes, LAMBDA c : selected_levels = {} \/ Prefix2(c) \in selected_levels)
  ELSE <<>>

\* labels of load_sections_and_labels: the text after the code, or "Class <code>"
\* (the sheet's cell is "05B1, 04A0 - G4: TPP, 06C2")
SheetLabel(c) ==
  IF c = S04A0 THEN <<"G", "4", ":", " ", "T", "P", "P">> ELSE <<"Class", " ">> \o c

\* SECTION_LABEL_MAP: filled from the sheet only when class reports are needed
SECTION_LABEL_MAP ==
  IF NEED_CLASS THEN [c \in Range(codes) |-> SheetLabel(c)] ELSE [c \in {} |-> <<>>]

\* config["gradeLabelMap"]: the portal writes {level code: level name}
grade_label_map ==
  [c \in {CodeOf(levels[i]) : i \in DOMAIN levels} \ {<<>>} |-> <<"Grade", " ">> \o c]

\* CLASS_REPORTS: the catalog's names that start with "Class "
CLASS_REPORTS ==
  LET names == [i \in DOMAIN reports |-> reports[i].name]
  IN SelectSeq(names, StartsWithClass)

\* OTHER_REPORTS after "OTHER_REPORTS += [n for n in CLASS_REPORTS if n not in OTHER_REPORTS]"
OTHER_REPORTS ==
  OTHER_REPORTS_FIXED
    \o SelectSeq(CLASS_REPORTS, LAMBDA n : n \notin Range(OTHER_REPORTS_FIXED))

\* the two lists concatenated the other way round
LOOP_NAMES_OtherFirst == OTHER_REPORTS \o TABLE_DATA_REPORTS

\* the names the main loop iterates over
LOOP_NAMES == TABLE_DATA_REPORTS \o OTHER_REPORTS

\* ------------------------------------------------------------ parameters
\* the four placeholder replacements of build_params
FillPlaceholders(v, class_code, subject_code) ==
  Replace(Replace(Replace(Replace(v,
    "<start_date>", START_DATE), "<end_date>", END_DATE),
    "<class>", class_code), "<subject>", subject_code)

\* build_params: err is json.JSONDecodeError; the student quiz report gets
\* assessmentType "1" when its template has none
build_params(report, class_code, subject_code) ==
  LET t == report.params
      filled == [k \in DOMAIN t.kv |-> FillPlaceholders(t.kv[k], class_code, subject_code)]
      keys == IF report.name = SQR THEN DOMAIN filled \cup {"assessmentType"} ELSE DOMAIN filled
  IN IF ~t.ok
     THEN [err |-> TRUE, params |-> [k \in {} |-> <<>>]]
     ELSE [err |-> FALSE,
           params |-> [k \in keys |-> IF k \in DOMAIN filled THEN filled[k] ELSE <<"1">>]]

\* ------------------------------------------------------------- filenames
\* one symbol of sanitize_filename; the brackets of a placeholder are replaced too
SanSym(c) ==
  CASE c \in {"/", "\\", ":", "*", "?", "|"} -> "-"
    [] c = "\"" -> "'"
    [] c = "<" -> "("
    [] c = ">" -> ")"
    [] c = "<class>" -> "(class)"
    [] c = "<start_date>" -> "(start_date)"
    [] c = "<end_date>" -> "(end_date)"
    [] c = "<SAFE_START>" -> "(SAFE_START)"
    [] c = "<SAFE_END>" -> "(SAFE_END)"
    [] OTHER -> c

sanitize_filename(name) == [i \in DOMAIN name |-> SanSym(name[i])]

\* os.path.splitext followed by f"{root}_{sanitize_filename(school)}{ext}"
add_school_suffix(file_name, school) ==
  IF school = <<>> THEN file_name
  ELSE IF file_name # <<>> /\ file_name[Len(file_name)] = ".csv"
    THEN SubSeq(file_name, 1, Len(file_name) - 1) \o <<"_">>
           \o sanitize_filename(school) \o <<".csv">>
    ELSE file_name \o <<"_">> \o sanitize_filename(school)

\* a or b, for values of which the empty text is the only falsy one
OrElse(a, b) == IF a # <<>> THEN a ELSE b

\* SECTION_LABEL_MAP.get(c) or grade_label_map.get(c) or grade_label_map.get(c[:2])
HumanLabel(class_code) ==
  OrElse(DictGet(SECTION_LABEL_MAP, class_code, <<>>),
    OrElse(DictGet(grade_label_map, class_code, <<>>),
           DictGet(grade_label_map, Prefix2(class_code), <<>>)))

\* the class label of a file name and of a metadata record
ClassLabel(class_code) ==
  IF class_code = <<>> THEN <<>>
  ELSE OrElse(HumanLabel(class_code), <<"Class", " ">> \o class_code)

RECURSIVE CollapseUnderscores(_)
\* while "__" in safe_name: safe_name = safe_name.replace("__", "_")
CollapseUnderscores(s) ==
  IF Contains(s, <<"_", "_">>)
  THEN CollapseUnderscores(ReplaceSeq(s, <<"_", "_">>, <<"_">>))
  ELSE s

\* inject_class_and_dates
inject_class_and_dates(template_name, class_code, start_label, end_label) ==
  LET class_label == ClassLabel(class_code)
      s1 == Replace(template_name, "<class>", class_label)
      s2 == Replace(s1, "(class)", IF class_label # <<>> THEN class_label \o <<"_">> ELSE <<>>)
      s3 == Replace(Replace(s2, "<start_date>", start_label), "(start_date)", start_label)
      s4 == Replace(Replace(s3, "<end_date>", end_label), "(end_date)", end_label)
      s5 == Replace(Replace(s4, "<SAFE_START>", start_label), "(SAFE_START)", start_label)
      s6 == Replace(Replace(s5, "<SAFE_END>", end_label), "(SAFE_END)", end_label)
      s7 == IF class_label # <<>> /\ Contains(s6, class_label \o start_label)
            THEN ReplaceSeq(s6, class_label \o start_label,
                            class_label \o <<"_">> \o start_label)
            ELSE s6
      s8 == IF Contains(s7, start_label \o end_label)
            THEN ReplaceSeq(s7, start_label \o end_label,
                            start_label \o <<"_">> \o end_label)
            ELSE s7
  IN CollapseUnderscores(s8)

\* f"{report_name}.csv"
DefaultTemplate(report_name) ==
  LET RECURSIVE Join(_)
      Join(ws) == IF Len(ws) <= 1 THEN ws ELSE <<Head(ws), " ">> \o Join(Tail(ws))
  IN Join(report_name) \o <<".csv">>

\* the file path of an invocation (relative to the run's output directory)
FilePath(report, class_code, start_label, end_label) ==
  LET template == OrElse(report.outputFile, DefaultTemplate(report.name))
  IN add_school_suffix(
       inject_class_and_dates(sanitize_filename(template), class_code, start_label, end_label),
       school_name)

\* the name of the sidecar of a file
SidecarPath(path) == path \o <<".meta.json">>

\* ----------------------------------------------------------- JSON values
\* A decoded JSON value: t is its type; s the text of a string or a number;
\* items the elements of a list, the values of an object, or, for a string
\* that json.loads accepts, the one value it decodes to; keys an object's keys.
JNull == [t |-> "null", s |-> "", items |-> <<>>, keys |-> <<>>]
JFalse == [t |-> "false", s |-> "", items |-> <<>>, keys |-> <<>>]
JNum(txt) == [t |-> "num", s |-> txt, items |-> <<>>, keys |-> <<>>]
JText(txt) == [t |-> "str", s |-> txt, items |-> <<>>, keys |-> <<>>]
JWrap(v) == [t |-> "str", s |-> "json", items |-> <<v>>, keys |-> <<>>]
JList(vs) == [t |-> "list", s |-> "", items |-> vs, keys |-> <<>>]
JDict(ks, vs) == [t |-> "dict", s |-> "", items |-> vs, keys |-> ks]

\* obj.get(key): None when the key is absent
JGet(obj, key) ==
  IF \E i \in DOMAIN obj.keys : obj.keys[i] = key
  THEN obj.items[CHOOSE i \in DOMAIN obj.keys : obj.keys[i] = key]
  ELSE JNull

\* key in obj
JHas(obj, key) == \E i \in DOMAIN obj.keys : obj.keys[i] = key

RECURSIVE decode_maybe_json(_)
\* decode_maybe_json: json.loads for as long as the value is a string that parses
decode_maybe_json(value) ==
  IF value.t = "str" /\ value.items # <<>>
  THEN decode_maybe_json(value.items[1])
  ELSE value

\* s.strip().lower() of the texts that json.loads rejects
StripLower(txt) ==
  CASE txt \in {"", " "} -> ""
    [] txt \in {"FALSE", "False"} -> "false"
    [] txt \in {"NULL", "Null"} -> "null"
    [] OTHER -> txt

\* EXTRACT_MAP.get(report_name): "" is None (no entry)
EXTRACT_MAP(report_name) ==
  CASE report_name \in {TABLE_DATA_REPORTS[i] : i \in 1..4} -> "TABLE_DATA"
    [] report_name \in {TEACHER_LOGS[i] : i \in 1..4} -> "direct_list"
    [] report_name = USAGE_ROLLUPS[1] -> "direct_list"
    [] report_name = USAGE_ROLLUPS[2] -> "lessoninfo"
    [] report_name = USAGE_ROLLUPS[3] -> "tableJSON"
    [] report_name = FIXED_CLASS_REPORTS[1] -> "data"
    [] report_name = FIXED_CLASS_REPORTS[2] -> "direct_list"
    [] report_name = FIXED_CLASS_REPORTS[3] -> "data"
    [] report_name = SQR -> "data"
    [] OTHER -> ""

\* the alias keys, in the order extract_values tries them
ALIAS_KEYS == <<"data", "TABLE_DATA", "tableData", "tableJSON", "lessoninfo">>

\* the alias keys tried from the end of the list
FirstAlias_LastPresent(obj) ==
  LET present == SelectSeq(ALIAS_KEYS, LAMBDA k : JHas(obj, k))
  IN IF present = <<>> THEN "" ELSE present[Len(present)]

\* the first alias key the object has; "" when it has none
FirstAlias(obj) ==
  LET present == SelectSeq(ALIAS_KEYS, LAMBDA k : JHas(obj, k))
  IN IF present = <<>> THEN "" ELSE present[1]

\* obj in (None, False) or a string that is "false", "null" or empty once stripped.
\* (None, False) holds the number 0 too, since 0 == False
IsEmptyMarker(obj) ==
  \/ obj.t \in {"null", "false"}
  \/ obj.t = "num" /\ obj.s = "0"
  \/ obj.t = "str" /\ StripLower(obj.s) \in {"false", "null", ""}

\* extract_values: JNull is None
extract_values(report_name, response_obj) ==
  LET mode == EXTRACT_MAP(report_name)
      obj == decode_maybe_json(response_obj)
  IN IF mode = "" THEN JNull
     ELSE IF IsEmptyMarker(obj) THEN JList(<<>>)
     ELSE IF mode = "direct_list"
       THEN IF obj.t = "list" THEN obj
            ELSE IF obj.t = "dict" /\ FirstAlias(obj) # ""
              THEN decode_maybe_json(JGet(obj, FirstAlias(obj)))
              ELSE JNull
     ELSE IF obj.t = "dict"
       THEN IF ~JHas(obj, mode) /\ FirstAlias(obj) # ""
            THEN decode_maybe_json(JGet(obj, FirstAlias(obj)))
            ELSE decode_maybe_json(JGet(obj, mode))
     ELSE JNull

\* the validation that accepts the records of a list and leaves the others out
ensure_rows_KeepValid(values) ==
  IF values.t # "list" THEN [ok |-> FALSE, rows |-> <<>>]
  ELSE [ok |-> TRUE, rows |-> SelectSeq(values.items, LAMBDA v : v.t = "dict")]

\* ensure_rows: ok is FALSE for None; rows are the records of the list
ensure_rows(values) ==
  IF values.t # "list" THEN [ok |-> FALSE, rows |-> <<>>]
  ELSE IF \E i \in DOMAIN values.items : values.items[i].t # "dict"
    THEN [ok |-> FALSE, rows |-> <<>>]
    ELSE [ok |-> TRUE, rows |-> values.items]

\* --------------------------------------------------------- row cleaning
\* a field value of a row: t is its Python type, chars the characters of a string
CellText(chars) == [t |-> "str", chars |-> chars]
CellNumber == [t |-> "num", chars |-> <<>>]
CellNone == [t |-> "null", chars |-> <<>>]

\* the characters str.strip() removes
Whitespace == {" ", "\t", "\n"}

RECURSIVE LStrip(_, _)
\* str.lstrip(set)
LStrip(s, set) == IF s # <<>> /\ s[1] \in set THEN LStrip(Tail(s), set) ELSE s

RECURSIVE RStrip(_, _)
\* str.rstrip(set)
RStrip(s, set) ==
  IF s # <<>> /\ s[Len(s)] \in set THEN RStrip(SubSeq(s, 1, Len(s) - 1), set) ELSE s

\* str.strip() and str.strip(chars)
Strip(s, set) == RStrip(LStrip(s, set), set)

RECURSIVE ReplaceDoublePipes(_)
\* s.replace("||", " "): the occurrences from the left, not overlapping
ReplaceDoublePipes(s) ==
  IF Len(s) < 2 THEN s
  ELSE IF s[1] = "|" /\ s[2] = "|" THEN <<" ">> \o ReplaceDoublePipes(SubSeq(s, 3, Len(s)))
  ELSE <<s[1]>> \o ReplaceDoublePipes(Tail(s))

\* strip_double_pipes
strip_double_pipes(s) ==
  Strip(Strip(ReplaceDoublePipes(Strip(s, Whitespace)), Whitespace), {"|"})

\* \d+
Digits(s) == s # <<>> /\ \A i \in DOMAIN s : s[i] \in {"0", "1", "2", "3", "4", "5", "6", "7", "8", "9"}

\* re.fullmatch(r"\d+(?:\.\d+)?[Ee][+-]?\d+", s)
LooksScientific(s) ==
  \E e \in DOMAIN s :
    /\ s[e] \in {"E", "e"}
    /\ LET m == SubSeq(s, 1, e - 1)
           x == SubSeq(s, e + 1, Len(s))
       IN /\ \/ Digits(m)
             \/ \E d \in DOMAIN m :
                  m[d] = "." /\ Digits(SubSeq(m, 1, d - 1)) /\ Digits(SubSeq(m, d + 1, Len(m)))
          /\ \/ Digits(x)
             \/ x # <<>> /\ x[1] \in {"+", "-"} /\ Digits(Tail(x))

\* excel_text_guard: ="..." around what looks like scientific notation
excel_text_guard(s) ==
  IF LooksScientific(s) THEN <<"=", "\"">> \o s \o <<"\"">> ELSE s

RECURSIVE Latin1AsUtf8(_)
\* s.encode("latin-1").decode("utf-8"): ok is FALSE for UnicodeDecodeError.  Of
\* the characters above U+007F the model has "A~" (A with tilde, byte 0xC3) and
\* "(c)" (the copyright sign, byte 0xA9), which together are the UTF-8 of "e'"
\* (e with acute); 0xA9 cannot start a character and 0xC3 cannot end one
Latin1AsUtf8(s) ==
  IF s = <<>> THEN [ok |-> TRUE, text |-> <<>>]
  ELSE IF s[1] = "A~"
    THEN IF Len(s) >= 2 /\ s[2] = "(c)"
         THEN LET rest == Latin1AsUtf8(SubSeq(s, 3, Len(s)))
              IN [ok |-> rest.ok, text |-> <<"e'">> \o rest.text]
         ELSE [ok |-> FALSE, text |-> <<>>]
  ELSE IF s[1] = "(c)" THEN [ok |-> FALSE, text |-> <<>>]
  ELSE LET rest == Latin1AsUtf8(Tail(s))
       IN [ok |-> rest.ok, text |-> <<s[1]>> \o rest.text]

\* the repair of clean_value: only when "A~" is in s and the replacement
\* character ("U+FFFD") is not, and only
\* when the round trip raises nothing
RepairMojibake(s) ==
  IF "A~" \in Range(s) /\ "U+FFFD" \notin Range(s)
  THEN IF Latin1AsUtf8(s).ok THEN Latin1AsUtf8(s).text ELSE s
  ELSE s

\* clean_value
clean_value(v) ==
  IF v.t = "str"
  THEN CellText(excel_text_guard(strip_double_pipes(RepairMojibake(Strip(v.chars, Whitespace)))))
  ELSE v

\* ------------------------------------------------- academic-window probe
\* int(text): -1 stands for ValueError
IntText(txt) ==
  CASE txt = "0" -> 0
    [] txt = "100" -> 100
    [] txt = "200" -> 200
    [] OTHER -> -1

\* int(it.get("createdDate", 0)): -1 stands for an exception (AttributeError for
\* an item that is no object, ValueError or TypeError for a value int() rejects)
CreatedKey(it) ==
  IF it.t # "dict" THEN -1
  ELSE IF ~JHas(it, "createdDate") THEN 0
  ELSE LET v == JGet(it, "createdDate")
       IN IF v.t \in {"num", "str"} THEN IntText(v.s)
          ELSE IF v.t = "false" THEN 0
          ELSE -1

\* re.match(r"\s*(\d{2}/\d{2}/\d{2,4})\s*-\s*(\d{2}/\d{2}/\d{2,4})\s*", ftd):
\* <<group(1)>> when the text matches, <<>> when it does not
MatchWindow(txt) ==
  CASE txt = "01/06/26 - 31/03/27" -> <<SITE_START>>
    [] txt = "15/01/25 - 30/05/25" -> << <<"15", "/", "01", "/", "25">> >>
    [] OTHER -> <<>>

\* the values of the newData and oldData buckets of the probe's payload
ProbeItems(payload) ==
  LET Bucket(name) ==
        IF JGet(payload, name).t = "dict" THEN JGet(payload, name).items ELSE <<>>
  IN IF payload.t = "dict" THEN Bucket("newData") \o Bucket("oldData") ELSE <<>>

\* items[0] without the sort
MostRecent_Unsorted(items) == items[1]

\* items[0] after items.sort(key=..., reverse=True): the sort is stable, so the
\* first of the items with the greatest key
MostRecent(items) ==
  LET top == CHOOSE i \in DOMAIN items :
               /\ \A j \in DOMAIN items : CreatedKey(items[j]) <= CreatedKey(items[i])
               /\ \A j \in 1..(i - 1) : CreatedKey(items[j]) < CreatedKey(items[i])
  IN items[top]

\* str(items[0].get("fromToDate") or ""), matched
WindowOf(item) ==
  LET v == JGet(item, "fromToDate")
  IN IF v.t = "str" THEN MatchWindow(v.s) ELSE <<>>

\* the try block of the preflight: <<site_start>> when it reaches the four
\* assignments, <<>> when it ends before them or raises
ResolveWindow(probe) ==
  IF probe.net # "ok" \/ ~probe.jsonOk THEN <<>>
  ELSE LET obj == decode_maybe_json(probe.body)
           data == IF obj.t = "dict" THEN JGet(obj, "data") ELSE obj
           items == ProbeItems(decode_maybe_json(data))
       IN IF items = <<>> THEN <<>>
          ELSE IF \E i \in DOMAIN items : CreatedKey(items[i]) = -1 THEN <<>>
          ELSE WindowOf(MostRecent(items))

\* probe_params
ProbeParams(class_code) ==
  [timePeriod |-> <<"predefined">>,
   startDate |-> <<"01", "/", "01", "/", TODAY[5]>>,
   endDate |-> TODAY,
   levelSection |-> class_code]

\* params after params["startDate"] = site_start; params["endDate"] = today_str
OverrideDates(params, site_start) ==
  [k \in DOMAIN params \cup {"startDate", "endDate"} |->
     IF k = "startDate" THEN site_start
     ELSE IF k = "endDate" THEN TODAY
     ELSE params[k]]

\* ------------------------------------------------------------- run plan
NoCode == <<>>

\* ({}, {}): a run with no class code and no subject code
SingleRun == << [class |-> NoCode, subject |-> NoCode] >>

\* xs or [({}, {})]
OrSingleRun(runs) == IF runs = <<>> THEN SingleRun ELSE runs

\* every level gets a run, mapped or not
runs_teacher_reports_from_map_AllLevels ==
  OrSingleRun([i \in DOMAIN levels |->
                 [class |-> levels[i],
                  subject |-> DictGet(subject_map_by_lvl, levels[i], <<>>)]])

\* runs_teacher_reports_from_map
runs_teacher_reports_from_map ==
  LET coded == [i \in DOMAIN levels |-> CodeOf(levels[i])]
      mapped == SelectSeq(coded,
                  LAMBDA code : code # <<>> /\ DictGet(subject_map_by_lvl, code, <<>>) # <<>>)
  IN OrSingleRun([i \in DOMAIN mapped |->
                    [class |-> mapped[i], subject |-> subject_map_by_lvl[mapped[i]]]])

\* every discovered code, not only those of the selected levels
runs_per_section_Unfiltered ==
  OrSingleRun([i \in DOMAIN codes |-> [class |-> codes[i], subject |-> NoCode]])

\* [({"code": c}, {}) for c in (SECTION_CODES or [])] or [({}, {})]
runs_per_section ==
  OrSingleRun([i \in DOMAIN SECTION_CODES |-> [class |-> SECTION_CODES[i], subject |-> NoCode]])

\* lvl["code"] in the list comprehension of RUN_PLAN raises KeyError for an
\* entry without the key and TypeError for null; nothing catches it
RunPlanRaises == \E i \in DOMAIN levels : levels[i] \in {LevelNoKey, LevelNull}

\* [({"code": lvl["code"]}, {}) for lvl in levels] or [({}, {})]
runs_per_level ==
  OrSingleRun([i \in DOMAIN levels |-> [class |-> levels[i], subject |-> NoCode]])

\* RUN_PLAN.get(report_name, [({}, {})])
RUN_PLAN(report_name) ==
  IF report_name = REPORT_NAME_SECTIONS THEN runs_per_level
  ELSE IF report_name \in Range(TEACHER_LOGS) THEN runs_teacher_reports_from_map
  ELSE IF report_name \in Range(FIXED_CLASS_REPORTS) \cup {SQR} THEN runs_per_section
  ELSE IF report_name \in Range(CLASS_REPORTS) THEN runs_per_section
  ELSE SingleRun

\* the first gate only: the student quiz report is not gated
Gated_FirstGateOnly(report_name) ==
  report_name \in Range(CLASS_REPORTS) /\ ~NEED_CLASS

\* the two needClassReports gates at the head of the main loop
Gated(report_name) ==
  \/ report_name \in Range(CLASS_REPORTS) /\ ~NEED_CLASS
  \/ report_name = SQR /\ ~NEED_CLASS

\* next((r for r in reports if r["name"] == report_name), None): <<r>> or <<>>
Lookup(report_name) ==
  LET found == SelectSeq(reports, LAMBDA r : r.name = report_name)
  IN IF found = <<>> THEN <<>> ELSE <<found[1]>>

\* --------------------------------------------------------- environment
\* one row of a report
Row == JDict(<<"id", "name">>, <<JNum("100"), JText("Asha")>>)

\* what the portal may answer to the probe: net is "error" for a connection error
\* or a timeout; jsonOk is FALSE when probe.json() raises
ProbeItem(created, window) ==
  JDict(<<"createdDate", "fromToDate">>, <<created, JText(window)>>)
ProbePayload(new, old) ==
  JDict(<<"data">>, <<JWrap(JDict(<<"newData", "oldData">>, <<new, old>>))>>)
NoProbe == [net |-> "none", jsonOk |-> FALSE, body |-> JNull]
ProbeResponses ==
  { [net |-> "error", jsonOk |-> FALSE, body |-> JNull],
    [net |-> "ok", jsonOk |-> FALSE, body |-> JNull],
    [net |-> "ok", jsonOk |-> TRUE,
     body |-> ProbePayload(JDict(<<>>, <<>>), JList(<<>>))],
    [net |-> "ok", jsonOk |-> TRUE,
     body |-> ProbePayload(
       JDict(<<"a">>, <<ProbeItem(JText("n/a"), "01/06/26 - 31/03/27")>>), JNull)],
    [net |-> "ok", jsonOk |-> TRUE,
     body |-> ProbePayload(
       JDict(<<"a">>, <<ProbeItem(JNum("100"), "01/06/26 - 31/03/27")>>),
       JDict(<<"b">>, <<ProbeItem(JText("200"), "Term 1")>>))],
    [net |-> "ok", jsonOk |-> TRUE,
     body |-> ProbePayload(
       JDict(<<"a">>, <<ProbeItem(JNum("100"), "15/01/25 - 30/05/25")>>),
       JDict(<<"b">>, <<ProbeItem(JText("200"), "01/06/26 - 31/03/27")>>))] }

\* what the portal may answer to a report request: parse is FALSE when neither
\* response.json() nor json.loads(text) succeeds
Responses ==
  { [net |-> "error", status |-> 0, parse |-> FALSE, body |-> JNull],
    [net |-> "ok", status |-> 404, parse |-> FALSE, body |-> JNull],
    [net |-> "ok", status |-> 201, parse |-> TRUE, body |-> JList(<<Row>>)],
    [net |-> "ok", status |-> 200, parse |-> FALSE, body |-> JNull],
    [net |-> "ok", status |-> 200, parse |-> TRUE, body |-> JList(<<Row>>)],
    [net |-> "ok", status |-> 200, parse |-> TRUE,
     body |-> JDict(<<"data">>, <<JWrap(JList(<<Row>>))>>)],
    [net |-> "ok", status |-> 200, parse |-> TRUE,
     body |-> JDict(<<"TABLE_DATA">>, <<JList(<<Row>>)>>)],
    [net |-> "ok", status |-> 200, parse |-> TRUE,
     body |-> JDict(<<"data">>, <<JList(<<Row, JNum("100")>>)>>)],
    [net |-> "ok", status |-> 200, parse |-> TRUE, body |-> JList(<<>>)],
    [net |-> "ok", status |-> 200, parse |-> TRUE, body |-> JText("Null")] }

\* what the filesystem may do with the CSV (open() raises, or a write after
\* open() raises and leaves the file behind) and with the sidecar
FsOutcomes ==
  { [csv |-> "open_fails", sidecar |-> FALSE], [csv |-> "write_fails", sidecar |-> FALSE],
    [csv |-> "ok", sidecar |-> FALSE], [csv |-> "ok", sidecar |-> TRUE] }

\* the state of the run
VARIABLES
  pc,              \* "loop": in the main loop; "done": after finalise_run_manifest;
                   \* "crashed": the script ended by an uncaught exception
  ri,              \* the position in LOOP_NAMES of the report the outer loop runs next
  runIdx,          \* the position of the inner loop in that report's runs
  RUN_MANIFEST,    \* RUN_MANIFEST["files"]
  http,            \* the requests issued so far, in order
  disk,            \* the paths of the files in the output directory
  written,         \* the CSV files created so far, in order, with their invocation
  attempts,        \* the (report, class, subject) whose loop body was entered, in order
  last,            \* the outcome of the latest pass of the inner loop
  manifestWrites,  \* how often finalise_run_manifest has written the manifest file
  manifestFile,    \* run_manifest.json: <<>> or <<the files list written to it>>
  calc             \* a helper function, its input and, once applied, its result

\* ------------------------------------------------------- one invocation
\* every 2xx status accepted
StatusOK_2xx(status) == status \in 200..299

\* response.status_code != 200 abandons the invocation
StatusOK(status) == status = 200

\* params=params if report["method"].upper() == "GET" else None
SendsParams(method) == Upper(method) = "GET"

\* the metadata record of a written file
Meta(report, class_code, subject_code, params, path, row_count) ==
  [reportName |-> report.name,
   filePath |-> path,
   method |-> report.method,
   classCode |-> class_code,
   subjectCode |-> subject_code,
   startDate |-> IF report.name = SQR THEN DictGet(params, "startDate", START_DATE)
                 ELSE START_DATE,
   endDate |-> IF report.name = SQR THEN DictGet(params, "endDate", END_DATE)
               ELSE END_DATE,
   rowCount |-> row_count,
   classLabel |-> OrElse(HumanLabel(class_code),
                         IF class_code # <<>> THEN <<"Class", " ">> \o class_code ELSE <<>>)]

NoParams == [k \in {} |-> <<>>]

\* the preflight made for every report, not only the student quiz report
Prepare_ProbeForEveryReport(inv, report, class_code, subject_code, probe) ==
  LET bp == build_params(report, class_code, subject_code)
      isSQR == report.name = SQR
      window == IF isSQR /\ ~bp.err THEN ResolveWindow(probe) ELSE <<>>
      params == IF window # <<>> THEN OverrideDates(bp.params, window[1]) ELSE bp.params
      use_start_label == IF window # <<>> THEN safe_date_for_name(window[1]) ELSE SAFE_START
      use_end_label == IF window # <<>> THEN safe_date_for_name(TODAY) ELSE SAFE_END
      probeReq == [inv |-> inv, kind |-> "probe", report |-> report.name, method |-> "GET",
                   hasParams |-> TRUE, params |-> ProbeParams(class_code)]
      reportReq == [inv |-> inv, kind |-> "report", report |-> report.name,
                    method |-> report.method, hasParams |-> SendsParams(report.method),
                    params |-> IF SendsParams(report.method) THEN params ELSE NoParams]
  IN [inv |-> inv, report |-> report.name, method |-> report.method,
      classCode |-> class_code, subjectCode |-> subject_code,
      err |-> bp.err,
      probe |-> IF isSQR /\ ~bp.err THEN probe ELSE NoProbe,
      window |-> window, params |-> params,
      startLabel |-> use_start_label, endLabel |-> use_end_label,
      http |-> IF bp.err THEN <<>> ELSE <<probeReq, reportReq>>,
      path |-> FilePath(report, class_code, use_start_label, use_end_label)]

\* the labels and the dates set once before the loop instead of in every pass: a
\* window an earlier pass resolved stays in force until another pass resolves one
Prepare_WindowCarriedOver(inv, report, class_code, subject_code, probe) ==
  LET bp == build_params(report, class_code, subject_code)
      isSQR == report.name = SQR
      window == IF isSQR /\ ~bp.err THEN ResolveWindow(probe) ELSE <<>>
      inForce == IF window # <<>> THEN window ELSE last.window
      params == IF inForce # <<>> /\ ~bp.err THEN OverrideDates(bp.params, inForce[1])
                ELSE bp.params
      use_start_label == IF inForce # <<>> THEN safe_date_for_name(inForce[1]) ELSE SAFE_START
      use_end_label == IF inForce # <<>> THEN safe_date_for_name(TODAY) ELSE SAFE_END
      probeReq == [inv |-> inv, kind |-> "probe", report |-> report.name, method |-> "GET",
                   hasParams |-> TRUE, params |-> ProbeParams(class_code)]
      reportReq == [inv |-> inv, kind |-> "report", report |-> report.name,
                    method |-> report.method, hasParams |-> SendsParams(report.method),
                    params |-> IF SendsParams(report.method) THEN params ELSE NoParams]
  IN [inv |-> inv, report |-> report.name, method |-> report.method,
      classCode |-> class_code, subjectCode |-> subject_code,
      err |-> bp.err,
      probe |-> IF isSQR /\ ~bp.err THEN probe ELSE NoProbe,
      window |-> window, params |-> params,
      startLabel |-> use_start_label, endLabel |-> use_end_label,
      http |-> IF bp.err THEN <<>>
               ELSE (IF isSQR THEN <<probeReq>> ELSE <<>>) \o <<reportReq>>,
      path |-> FilePath(report, class_code, use_start_label, use_end_label)]

\* The inner loop's body up to the report request, for one (class_level, subject)
\* of a report and one answer of the portal to the probe: err is
\* json.JSONDecodeError from build_params (the body ends there); window is what
\* the preflight resolved; requests are the HTTP requests the body issues.
Prepare(inv, report, class_code, subject_code, probe) ==
  LET bp == build_params(report, class_code, subject_code)
      isSQR == report.name = SQR
      window == IF isSQR /\ ~bp.err THEN ResolveWindow(probe) ELSE <<>>
      params == IF window # <<>> THEN OverrideDates(bp.params, window[1]) ELSE bp.params
      use_start_label == IF window # <<>> THEN safe_date_for_name(window[1]) ELSE SAFE_START
      use_end_label == IF window # <<>> THEN safe_date_for_name(TODAY) ELSE SAFE_END
      probeReq == [inv |-> inv, kind |-> "probe", report |-> report.name, method |-> "GET",
                   hasParams |-> TRUE, params |-> ProbeParams(class_code)]
      reportReq == [inv |-> inv, kind |-> "report", report |-> report.name,
                    method |-> report.method, hasParams |-> SendsParams(report.method),
                    params |-> IF SendsParams(report.method) THEN params ELSE NoParams]
  IN [inv |-> inv, report |-> report.name, method |-> report.method,
      classCode |-> class_code, subjectCode |-> subject_code,
      err |-> bp.err,
      probe |-> IF isSQR /\ ~bp.err THEN probe ELSE NoProbe,
      window |-> window, params |-> params,
      startLabel |-> use_start_label, endLabel |-> use_end_label,
      http |-> IF bp.err THEN <<>>
               ELSE (IF isSQR THEN <<probeReq>> ELSE <<>>) \o <<reportReq>>,
      path |-> FilePath(report, class_code, use_start_label, use_end_label)]

\* what the isinstance tests of ensure_rows find in the extracted value
ValuesKind(values) ==
  IF values.t # "list" THEN "not_list"
  ELSE IF \E i \in DOMAIN values.items : values.items[i].t # "dict" THEN "mixed"
  ELSE "records"

\* an empty list taken for nothing usable: `if not values` in place of the
\* validation's own answer
Receive_EmptySkipped(pre, resp) ==
  LET values == decode_maybe_json(extract_values(pre.report, decode_maybe_json(resp.body)))
      ensured == ensure_rows(values)
      End(stage) == [stage |-> stage, rowCount |-> 0, values |-> "none", header |-> {}]
  IN IF pre.err THEN End("params_error")
     ELSE IF resp.net # "ok" THEN End("request_error")
     ELSE IF ~StatusOK(resp.status) THEN End("status")
     ELSE IF ~resp.parse THEN End("unparsable")
     ELSE IF ~ensured.ok \/ ensured.rows = <<>>
       THEN [stage |-> "no_rows", rowCount |-> 0, values |-> ValuesKind(values),
             header |-> {}]
     ELSE [stage |-> "write", rowCount |-> Len(ensured.rows), values |-> ValuesKind(values),
           header |-> UNION {Range(ensured.rows[i].keys) : i \in DOMAIN ensured.rows}]

\* From the report request to the point where a CSV is opened, for one answer of
\* the portal: where the body ends, or "write" with the number of rows to write
\* and the field names of the header; values is what the extraction gave
\* ("none": the body ended before it)
Receive(pre, resp) ==
  LET values == decode_maybe_json(extract_values(pre.report, decode_maybe_json(resp.body)))
      ensured == ensure_rows(values)
      End(stage) == [stage |-> stage, rowCount |-> 0, values |-> "none", header |-> {}]
  IN IF pre.err THEN End("params_error")
     ELSE IF resp.net # "ok" THEN End("request_error")
     ELSE IF ~StatusOK(resp.status) THEN End("status")
     ELSE IF ~resp.parse THEN End("unparsable")
     ELSE IF ~ensured.ok
       THEN IF values.t = "list" /\ Len(values.items) = 0
            THEN [stage |-> "write", rowCount |-> 0, values |-> ValuesKind(values),
                  header |-> {}]
            ELSE [stage |-> "no_rows", rowCount |-> 0, values |-> ValuesKind(values),
                  header |-> {}]
     ELSE [stage |-> "write", rowCount |-> Len(ensured.rows), values |-> ValuesKind(values),
           header |-> UNION {Range(ensured.rows[i].keys) : i \in DOMAIN ensured.rows}]

\* what the decoded body of a response is: "records" for a list of records with
\* at least one, "wrapped" for an object that holds such a list under one of
\* the alias keys, "other" for anything else
BodyShape(body) ==
  LET obj == decode_maybe_json(body)
      Records(v) == ValuesKind(v) = "records" /\ v.items # <<>>
  IN IF Records(obj) THEN "records"
     ELSE IF obj.t = "dict"
             /\ \E i \in DOMAIN ALIAS_KEYS :
                  JHas(obj, ALIAS_KEYS[i]) /\ Records(decode_maybe_json(JGet(obj, ALIAS_KEYS[i])))
       THEN "wrapped"
     ELSE "other"

\* The outcome of one pass of the inner loop.  stage is where the body ends:
\*   "params_error"  build_params raised json.JSONDecodeError
\*   "request_error" requests.request raised (connection error, timeout)
\*   "status"        the status is not accepted
\*   "unparsable"    the body is not JSON
\*   "no_rows"       nothing usable was extracted
\*   "write_error"   open() of the CSV raised: no file
\*   "write_partial" a write to the CSV raised after open(): the file is left
\*   "saved"         the CSV is written and its record is in the manifest
\* status is the response's as far as the body read it, rowCount the number of
\* rows extracted, values what ensure_rows was given, header the field names of
\* the CSV's header line, shape what the decoded body was ("none": not read), csv
\* and sidecarOk the filesystem's; file is the CSV created, sidecar the sidecar
\* created and meta the record appended to the manifest (each <<x>> or <<>>).
Finish(report, pre, resp, rc, fs) ==
  LET meta == Meta(report, pre.classCode, pre.subjectCode, pre.params, pre.path, rc.rowCount)
      base == [inv |-> pre.inv, report |-> pre.report, method |-> pre.method,
               classCode |-> pre.classCode, subjectCode |-> pre.subjectCode,
               probe |-> pre.probe, window |-> pre.window, params |-> pre.params,
               startLabel |-> pre.startLabel, endLabel |-> pre.endLabel,
               status |-> IF rc.stage \in {"params_error", "request_error"} THEN 0
                          ELSE resp.status,
               rowCount |-> rc.rowCount, values |-> rc.values, header |-> rc.header,
               shape |-> IF rc.values = "none" THEN "none" ELSE BodyShape(resp.body),
               csv |-> fs.csv, sidecarOk |-> FALSE,
               http |-> pre.http, file |-> <<>>, sidecar |-> <<>>, meta |-> <<>>,
               stage |-> rc.stage]
  IN IF rc.stage # "write" THEN base
     ELSE IF fs.csv = "open_fails" THEN [base EXCEPT !.stage = "write_error"]
     ELSE IF fs.csv = "write_fails"
       THEN [base EXCEPT !.stage = "write_partial", !.file = <<pre.path>>]
     ELSE [base EXCEPT !.stage = "saved", !.file = <<pre.path>>, !.meta = <<meta>>,
                       !.sidecarOk = fs.sidecar,
                       !.sidecar = IF fs.sidecar THEN <<SidecarPath(pre.path)>> ELSE <<>>]

\* the try block without its except clause: an exception leaves the loop
LoopGoesOn_Uncaught(stage) ==
  stage \notin {"request_error", "write_error", "write_partial"}

\* The outcomes after which the inner loop goes on to its next pass: the ends of
\* the body by `continue`, its normal end, and every exception raised inside the
\* try block, which `except Exception` catches and logs
LoopGoesOn(stage) ==
  stage \in {"params_error", "request_error", "status", "unparsable", "no_rows",
             "write_error", "write_partial", "saved"}

\* --------------------------------------------------------------- state
cfgVars == <<reports, levels, subject_map_by_lvl, NEED_CLASS, codes>>
vars == <<reports, levels, subject_map_by_lvl, NEED_CLASS, codes, pc, ri, runIdx,
          RUN_MANIFEST, http, disk, written, attempts, last, manifestWrites, manifestFile,
          calc>>

\* the state of calc before any application
NoCalc == [fn |-> "none", name |-> <<>>, arg |-> CellNone, applied |-> FALSE, out |-> CellNone]

\* the state of `last` before any invocation
NoInvocation ==
  [inv |-> 0, report |-> <<>>, method |-> "", classCode |-> <<>>, subjectCode |-> <<>>,
   probe |-> NoProbe, window |-> <<>>, params |-> NoParams,
   startLabel |-> <<>>, endLabel |-> <<>>,
   status |-> 0, rowCount |-> 0, values |-> "none", header |-> {}, shape |-> "none",
   csv |-> "none", sidecarOk |-> FALSE,
   http |-> <<>>, file |-> <<>>, sidecar |-> <<>>, meta |-> <<>>, stage |-> "none"]

\* The head of the outer loop for one name: the name is passed over when a
\* needClassReports gate holds ("Skipping ...") or the catalog has no such
\* report ("Report not found in config"); both only print
Skipped(report_name) == Gated(report_name) \/ Lookup(report_name) = <<>>

\* `break` in place of `continue`: the first name passed over ends the loop
NextRunnable_Break(i) ==
  IF i > Len(LOOP_NAMES) THEN i
  ELSE IF Skipped(LOOP_NAMES[i]) THEN Len(LOOP_NAMES) + 1
  ELSE i

RECURSIVE NextRunnable(_)
\* the first position from i on whose name the outer loop does not pass over
\* (Len(LOOP_NAMES) + 1: the loop ends)
NextRunnable(i) ==
  IF i > Len(LOOP_NAMES) THEN i
  ELSE IF Skipped(LOOP_NAMES[i]) THEN NextRunnable(i + 1)
  ELSE i

\* the invocations the main loop is to make: in loop order, the runs of every
\* report that is not passed over
RECURSIVE PlannedFrom(_)
PlannedFrom(i) ==
  IF i > Len(LOOP_NAMES) THEN <<>>
  ELSE LET name == LOOP_NAMES[i]
           runs == RUN_PLAN(name)
       IN (IF Skipped(name) THEN <<>>
           ELSE [k \in DOMAIN runs |->
                   [report |-> name, class |-> runs[k].class, subject |-> runs[k].subject]])
          \o PlannedFrom(i + 1)
Planned == PlannedFrom(1)

Init ==
  /\ reports \in {[i \in DOMAIN c |-> c[i][1]] : c \in SubSeqs(ReportDefs, MaxCatalog)}
  /\ levels \in Prefixes(LevelOrder, MaxLevels)
  /\ subject_map_by_lvl \in {[c \in S |-> UuidOf(c)] : S \in SUBSET Range(levels)}
  /\ NEED_CLASS \in BOOLEAN
  /\ codes \in IF NEED_CLASS THEN Prefixes(SectionOrder, MaxSections) ELSE {<<>>}
  /\ Len(Planned) <= MaxInvocations
  /\ pc = "loop"
  /\ ri = NextRunnable(1)
  /\ runIdx = 1
  /\ RUN_MANIFEST = <<>>
  /\ http = <<>>
  /\ disk = {}
  /\ written = <<>>
  /\ attempts = <<>>
  /\ last = NoInvocation
  /\ manifestWrites = 0
  /\ manifestFile = <<>>
  /\ calc = NoCalc

\* the inputs a pass of the inner loop reads: the probe's answer only for the
\* student quiz report, the filesystem's only when a CSV is opened
ProbesRead(report) == IF report.name = SQR THEN ProbeResponses ELSE {NoProbe}
FsRead(rc) ==
  IF rc.stage = "write" THEN FsOutcomes ELSE {[csv |-> "none", sidecar |-> FALSE]}

\* One pass of the inner loop: the whole try block with its except, then the
\* loop heads up to the next pass
Invocation ==
  /\ pc = "loop"
  /\ ri <= Len(LOOP_NAMES)
  /\ LET report == Lookup(LOOP_NAMES[ri])[1]
         runs == RUN_PLAN(LOOP_NAMES[ri])
         run == runs[runIdx]
         nxt == IF runIdx < Len(runs) THEN <<ri, runIdx + 1>>
                ELSE <<NextRunnable(ri + 1), 1>>
     IN /\ attempts' = Append(attempts,
             [report |-> report.name, class |-> run.class, subject |-> run.subject])
        /\ \E to \in {nxt}, probe \in ProbesRead(report), resp \in Responses :
             \E pre \in {Prepare(Len(attempts) + 1, report, run.class, run.subject, probe)} :
               \E rc \in {Receive(pre, resp)} :
                 \E fs \in FsRead(rc) :
                   \E r \in {Finish(report, pre, resp, rc, fs)} :
                     /\ last' = r
                     /\ http' = http \o r.http
                     /\ disk' = disk \cup Range(r.file) \cup Range(r.sidecar)
                     /\ written' = written \o [i \in DOMAIN r.file |->
                                                 [path |-> r.file[i], inv |-> r.inv]]
                     /\ RUN_MANIFEST' = RUN_MANIFEST \o r.meta
                     /\ IF LoopGoesOn(r.stage)
                        THEN pc' = pc /\ ri' = to[1] /\ runIdx' = to[2]
                        ELSE pc' = "crashed" /\ UNCHANGED <<ri, runIdx>>
  /\ UNCHANGED <<cfgVars, manifestWrites, manifestFile, calc>>

\* the manifest flushed incrementally: a write whenever the script is in the loop
Finalise_Incremental ==
  /\ pc = "loop"
  /\ manifestWrites < 2
  /\ manifestWrites' = manifestWrites + 1
  /\ manifestFile' = <<RUN_MANIFEST>>
  /\ pc' = IF ri > Len(LOOP_NAMES) THEN "done" ELSE pc
  /\ last' = NoInvocation
  /\ UNCHANGED <<cfgVars, ri, runIdx, RUN_MANIFEST, http, disk, written, attempts, calc>>

\* finalise_run_manifest without its try: a write that fails ends the script
\* by the exception
Finalise_Uncaught ==
  /\ pc = "loop"
  /\ ri > Len(LOOP_NAMES)
  /\ \E ok \in BOOLEAN :
       /\ manifestWrites' = manifestWrites + 1
       /\ manifestFile' = IF ok THEN <<RUN_MANIFEST>> ELSE manifestFile
       /\ pc' = IF ok THEN "done" ELSE "crashed"
  /\ last' = NoInvocation
  /\ UNCHANGED <<cfgVars, ri, runIdx, RUN_MANIFEST, http, disk, written, attempts, calc>>

\* finalise_run_manifest, after the loop: the write may fail, which is only logged
Finalise ==
  /\ pc = "loop"
  /\ ri > Len(LOOP_NAMES)
  /\ \E ok \in BOOLEAN :
       /\ manifestWrites' = manifestWrites + 1
       /\ manifestFile' = IF ok THEN <<RUN_MANIFEST>> ELSE manifestFile
  /\ pc' = "done"
  /\ last' = NoInvocation
  /\ UNCHANGED <<cfgVars, ri, runIdx, RUN_MANIFEST, http, disk, written, attempts, calc>>

Next == Invocation \/ Finalise

Spec == Init /\ [][Next]_vars

\* the scheduler of a sequential program: a step that can be taken is taken
FairSpec == Spec /\ WF_vars(Next)

\* ------------------------------------ configurations with code-less levels
\* the entries config["levels"] is made of here: a level with a code, one with
\* an empty code, one without the key, and null
LevelEntries == {L5, <<>>, LevelNoKey, LevelNull}

\* the catalog entries whose runs are built from the levels
PerLevelDefs ==
  SelectSeq(ReportDefs, LAMBDA d : d.name \in {REPORT_NAME_SECTIONS, TEACHER_LOGS[1]})

\* The script up to the main loop for a hand-written configuration: the
\* construction of RUN_PLAN ends the script by an exception when it raises
InitLevels ==
  /\ reports \in {[i \in DOMAIN c |-> c[i][1]] : c \in SubSeqs(PerLevelDefs, MaxCatalog)}
  /\ levels \in UNION {[1..n -> LevelEntries] : n \in 0..MaxLevels}
  /\ subject_map_by_lvl \in {[c \in S |-> UuidOf(c)] : S \in SUBSET {L5}}
  /\ NEED_CLASS = FALSE
  /\ codes = <<>>
  /\ Len(Planned) <= MaxInvocations
  /\ pc = IF RunPlanRaises THEN "crashed" ELSE "loop"
  /\ ri = NextRunnable(1)
  /\ runIdx = 1
  /\ RUN_MANIFEST = <<>>
  /\ http = <<>>
  /\ disk = {}
  /\ written = <<>>
  /\ attempts = <<>>
  /\ last = NoInvocation
  /\ manifestWrites = 0
  /\ manifestFile = <<>>
  /\ calc = NoCalc

LevelSpec == InitLevels /\ [][Next]_vars

\* ------------------------------------------- the helper functions alone
\* the characters the cleaned field values are made of
CleanAlphabet == {" ", "|", "x", "1", "E", "A~", "(c)"}

\* the field values clean_value is applied to
FieldValues ==
  {CellText(chars) : chars \in UNION {[1..n -> CleanAlphabet] : n \in 0..MaxText}}
    \cup {CellNumber, CellNone}

\* what the portal may put under a key of a response object
PayloadValues ==
  { JList(<<Row>>), JWrap(JList(<<Row>>)), JList(<<>>), JText("n/a"),
    JDict(<<"status">>, <<JText("ok")>>) }

\* the decoded responses extract_values is applied to: objects of up to MaxKeys
\* keys, alias keys and one other, and values that are no object
Payloads ==
  UNION { {JDict(ks, vs) : vs \in [DOMAIN ks -> PayloadValues]} :
            ks \in {[i \in DOMAIN c |-> c[i][1]] :
                      c \in SubSeqs(ALIAS_KEYS \o <<"rows">>, MaxKeys)} }
    \cup {JList(<<Row>>), JText("Null"), JNull,
          JWrap(JDict(<<"tableData">>, <<JList(<<Row>>)>>))}

\* report names of every extraction mode, and one without
ExtractNames ==
  {TABLE_DATA_REPORTS[1], TEACHER_LOGS[1], USAGE_ROLLUPS[2], USAGE_ROLLUPS[3], SQR,
   <<"Class", "Attendance", "Report">>}

\* no catalog and no run: a helper function and an input for it
InitFunctions ==
  /\ reports = <<>>
  /\ levels = <<>>
  /\ subject_map_by_lvl = [c \in {} |-> <<>>]
  /\ NEED_CLASS = FALSE
  /\ codes = <<>>
  /\ pc = "done"
  /\ ri = 1
  /\ runIdx = 1
  /\ RUN_MANIFEST = <<>>
  /\ http = <<>>
  /\ disk = {}
  /\ written = <<>>
  /\ attempts = <<>>
  /\ last = NoInvocation
  /\ manifestWrites = 0
  /\ manifestFile = <<>>
  /\ calc \in {[fn |-> "clean_value", name |-> <<>>, arg |-> v, applied |-> FALSE,
                 out |-> CellNone] : v \in FieldValues}
         \cup {[fn |-> "extract_values", name |-> name, arg |-> obj, applied |-> FALSE,
                 out |-> CellNone] : name \in ExtractNames, obj \in Payloads}

\* clean_row applies clean_value to a field value
CleanValue ==
  /\ calc.fn = "clean_value" /\ ~calc.applied
  /\ calc' = [calc EXCEPT !.applied = TRUE, !.out = clean_value(calc.arg)]
  /\ UNCHANGED <<cfgVars, pc, ri, runIdx, RUN_MANIFEST, http, disk, written, attempts, last,
                 manifestWrites, manifestFile>>

\* the main loop applies extract_values to a decoded response
ExtractValues ==
  /\ calc.fn = "extract_values" /\ ~calc.applied
  /\ calc' = [calc EXCEPT !.applied = TRUE, !.out = extract_values(calc.name, calc.arg)]
  /\ UNCHANGED <<cfgVars, pc, ri, runIdx, RUN_MANIFEST, http, disk, written, attempts, last,
                 manifestWrites, manifestFile>>

NextFunctions == CleanValue \/ ExtractValues

FunctionSpec == InitFunctions /\ [][NextFunctions]_vars

\* ================================================================ claims
\* s is an initial segment of t
IsPrefix(s, t) == Len(s) <= Len(t) /\ SubSeq(t, 1, Len(s)) = s

\* C1: whatever the outcomes of the invocations, the loop bodies entered are at
\* every moment an initial segment of the planned invocations and the script has
\* not ended by an exception; until the run has ended a step can be taken (the
\* loop stands at a planned invocation not yet attempted, or all are attempted
\* and finalise_run_manifest is next), and every step enters the next planned
\* loop body or ends the run, so that the run, which takes the steps it can
\* take, ends; and it ends after finalise_run_manifest with every planned
\* invocation attempted
C1_EveryInvocationAttempted ==
  /\ [](\A planned \in {Planned} :
          /\ IsPrefix(attempts, planned)
          /\ pc \in {"loop", "done"}
          /\ pc = "loop" /\ ri <= Len(LOOP_NAMES) =>
               /\ Len(attempts) < Len(planned)
               /\ planned[Len(attempts) + 1].report = LOOP_NAMES[ri]
               /\ runIdx \in DOMAIN RUN_PLAN(LOOP_NAMES[ri])
          /\ pc = "loop" /\ ri > Len(LOOP_NAMES) => attempts = planned
          /\ pc = "done" => attempts = planned /\ manifestWrites = 1)
  /\ [][\/ pc = "loop" /\ pc' = "done"
        \/ pc' = pc /\ Len(attempts') = Len(attempts) + 1]_vars

\* C1 witness: the first invocation left no record, the second was attempted
\* and saved its file
C1_Witness ==
  /\ pc = "loop"
  /\ last.inv = 2
  /\ last.stage = "saved"
  /\ Len(http) >= 2
  /\ Len(RUN_MANIFEST) = 1

\* C2: run_manifest.json is written once per run, by the step that ends the run
\* when no invocation is pending: never while the loop has a pass to make, never
\* a second time, and a run that has ended has made that write
C2_ManifestWrittenOnceAtEnd ==
  /\ manifestWrites <= 1
  /\ manifestWrites = 1 => pc = "done" /\ attempts = Planned
  /\ pc = "done" => manifestWrites = 1
  /\ pc = "loop" => manifestFile = <<>>
  /\ manifestFile # <<>> => manifestFile = <<RUN_MANIFEST>>

\* C2 witness: the run has ended after two invocations and the manifest file
\* holds the record of a file
C2_Witness ==
  /\ pc = "done"
  /\ Len(attempts) = 2
  /\ manifestFile # <<>>
  /\ Len(manifestFile[1]) >= 1

\* the names of the catalog's entries
CataloguedNames == {reports[i].name : i \in DOMAIN reports}

\* the loop bodies entered for one report, in order
AttemptsOf(name) == SelectSeq(attempts, LAMBDA a : a.report = name)

\* no loop body entered, no request issued, no file created and no manifest
\* record appended for any of the names
NothingDoneFor(names) ==
  /\ \A i \in DOMAIN attempts : attempts[i].report \notin names
  /\ \A i \in DOMAIN http : http[i].report \notin names
  /\ \A i \in DOMAIN written : attempts[written[i].inv].report \notin names
  /\ \A i \in DOMAIN RUN_MANIFEST : RUN_MANIFEST[i].reportName \notin names

\* C3: the manifest's files list is at every moment the list of the records of
\* the output files created so far, in the order of their creation: every CSV
\* created in the output directory has its record
C3_ManifestListsEveryFile ==
  [k \in DOMAIN RUN_MANIFEST |-> RUN_MANIFEST[k].filePath]
    = [k \in DOMAIN written |-> written[k].path]

\* the invocations of the names, in order, each name with its runs
RECURSIVE PlanOver(_)
PlanOver(names) ==
  IF names = <<>> THEN <<>>
  ELSE LET runs == RUN_PLAN(Head(names))
       IN [k \in DOMAIN runs |->
             [report |-> Head(names), class |-> runs[k].class, subject |-> runs[k].subject]]
          \o PlanOver(Tail(names))

\* C4: for the names of the classification that the catalog does not hold, no
\* request is issued and no record is appended; a run that has ended has entered
\* the loop bodies it would have entered had those names not been in the
\* classification, and every invocation that saved its file has its record
C4_MissingReportOnlySkipped ==
  LET missing == Range(LOOP_NAMES) \ CataloguedNames
      others == SelectSeq(LOOP_NAMES, LAMBDA n : n \in CataloguedNames /\ ~Gated(n))
  IN /\ NothingDoneFor(missing)
     /\ pc = "done" => attempts = PlanOver(others)
     /\ last.stage = "saved" =>
          /\ RUN_MANIFEST # <<>>
          /\ RUN_MANIFEST[Len(RUN_MANIFEST)] = last.meta[1]
          /\ last.meta[1].reportName \in CataloguedNames

\* C4 witness: the run has ended; a name the catalog lacks comes in the loop
\* before a report that saved its file
C4_Witness ==
  /\ pc = "done"
  /\ RUN_MANIFEST # <<>>
  /\ \E i, j \in DOMAIN LOOP_NAMES :
       /\ i < j
       /\ LOOP_NAMES[i] \notin CataloguedNames
       /\ LOOP_NAMES[j] = RUN_MANIFEST[1].reportName

\* the catalog's names that start with "Class "
CustomClassNames == {n \in CataloguedNames : StartsWithClass(n)}

PerClassInCatalog ==
  (Range(FIXED_CLASS_REPORTS) \cup {SQR} \cup CustomClassNames) \cap CataloguedNames

\* C6 as claimed: with needClassReports true, a run that has ended has entered
\* the loop body of every per-class report of the catalog once per section code,
\* in discovery order, with that code as class code and no subject code: no
\* invocation when there is no section code
C6_OneInvocationPerSection ==
  pc = "done" /\ NEED_CLASS =>
    \A name \in PerClassInCatalog :
      AttemptsOf(name) = [i \in DOMAIN SECTION_CODES |->
                           [report |-> name, class |-> SECTION_CODES[i], subject |-> <<>>]]

\* C6 amended: as claimed when there is a section code; with no section code
\* the report has one invocation, with no class code and no subject code
C6_OneInvocationPerSectionOrOne ==
  pc = "done" /\ NEED_CLASS =>
    \A name \in PerClassInCatalog :
      AttemptsOf(name) =
        IF SECTION_CODES = <<>>
        THEN << [report |-> name, class |-> <<>>, subject |-> <<>>] >>
        ELSE [i \in DOMAIN SECTION_CODES |->
                [report |-> name, class |-> SECTION_CODES[i], subject |-> <<>>]]

\* C6 witness: a per-class report was invoked for two section codes
C6_Witness ==
  /\ pc = "done"
  /\ NEED_CLASS
  /\ Len(SECTION_CODES) = 2
  /\ \E name \in PerClassInCatalog : Len(AttemptsOf(name)) = 2

\* the configured levels that have a subject mapping, in order
MappedLevels ==
  SelectSeq(levels, LAMBDA c : c # <<>> /\ c \in DOMAIN subject_map_by_lvl
                                /\ subject_map_by_lvl[c] # <<>>)

\* C7 as claimed: a run that has ended has entered the loop body of every
\* teacher report of the catalog once per mapped level, in order, with the
\* level's code and its subject identifier, and not otherwise: as many
\* invocations as mapped levels, none when no level is mapped
C7_OneInvocationPerMappedLevel ==
  pc = "done" =>
    \A name \in Range(TEACHER_LOGS) \cap CataloguedNames :
      AttemptsOf(name) = [i \in DOMAIN MappedLevels |->
                           [report |-> name, class |-> MappedLevels[i],
                            subject |-> subject_map_by_lvl[MappedLevels[i]]]]

\* C7 amended: as claimed when a level is mapped; when no level is mapped the
\* report has one invocation, with no class code and no subject code
C7_OneInvocationPerMappedLevelOrOne ==
  pc = "done" =>
    \A name \in Range(TEACHER_LOGS) \cap CataloguedNames :
      AttemptsOf(name) =
        IF MappedLevels = <<>>
        THEN << [report |-> name, class |-> <<>>, subject |-> <<>>] >>
        ELSE [i \in DOMAIN MappedLevels |->
                [report |-> name, class |-> MappedLevels[i],
                 subject |-> subject_map_by_lvl[MappedLevels[i]]]]

\* C7 witness: of two configured levels one is mapped, and the teacher report
\* was invoked for that one only
C7_Witness ==
  /\ pc = "done"
  /\ Len(levels) = 2
  /\ Len(MappedLevels) = 1
  /\ \E name \in Range(TEACHER_LOGS) \cap CataloguedNames :
       /\ Len(AttemptsOf(name)) = 1
       /\ AttemptsOf(name)[1].class = MappedLevels[1]

\* the report requests of the latest pass of the inner loop
LastReportRequests == SelectSeq(last.http, LAMBDA q : q.kind = "report")

\* the latest pass received a response: it got as far as the status check
LastGotResponse == last.inv > 0 /\ last.stage \notin {"params_error", "request_error"}

\* C8 as claimed: an invocation that received a response is abandoned at the
\* status check exactly when the status is not in 200..299; abandoned, it leaves
\* no file and no record and its request was issued once
C8_AbandonedUnless2xx ==
  LastGotResponse =>
    /\ last.stage = "status" <=> last.status \notin 200..299
    /\ last.stage = "status" =>
         last.file = <<>> /\ last.meta = <<>> /\ Len(LastReportRequests) = 1

\* C8 amended: an invocation that received a response is abandoned at the
\* status check exactly when the status is not 200; abandoned, it leaves no file
\* and no record and its request was issued once
C8_AbandonedUnlessStatus200 ==
  LastGotResponse =>
    /\ last.stage = "status" <=> last.status # 200
    /\ last.stage = "status" =>
         last.file = <<>> /\ last.meta = <<>> /\ Len(LastReportRequests) = 1

\* C8 witness: a response of status 201 was abandoned
C8_Witness ==
  /\ last.status = 201
  /\ last.stage = "status"
  /\ Len(LastReportRequests) = 1

\* C9: every invocation that issues its report request issues it once, with the
\* parameter object built from the definition's template, whatever the method
C9_RequestCarriesParams ==
  last.inv > 0 /\ last.stage # "params_error" =>
    /\ Len(LastReportRequests) = 1
    /\ LastReportRequests[1].hasParams
    /\ LastReportRequests[1].params = last.params

\* the ways the probe fails: no answer, an answer that is no JSON, no record in
\* either bucket, a record whose createdDate is no number, or a record of the
\* greatest createdDate whose fromToDate does not match the pattern
ProbeFails(probe) ==
  \/ probe.net # "ok"
  \/ ~probe.jsonOk
  \/ LET obj == decode_maybe_json(probe.body)
         data == IF obj.t = "dict" THEN JGet(obj, "data") ELSE obj
         items == ProbeItems(decode_maybe_json(data))
     IN \/ items = <<>>
        \/ \E i \in DOMAIN items : CreatedKey(items[i]) = -1
        \/ \E i \in DOMAIN items :
             /\ \A j \in DOMAIN items : CreatedKey(items[j]) <= CreatedKey(items[i])
             /\ WindowOf(items[i]) = <<>>

\* C10: an invocation of the student quiz report issues the probe and then the
\* report request; when the probe fails, the request's parameters are those
\* built from the configured range, the filename labels are the configured
\* dates and a saved record holds the configured dates; otherwise start and end
\* of parameters, labels and record are all four those of the site's window:
\* never a part of the override
C10_ProbeFailureFallsBack ==
  last.report = SQR /\ last.stage # "params_error" =>
    LET def == Lookup(SQR)[1]
        base == build_params(def, last.classCode, last.subjectCode).params
        req == last.http[Len(last.http)]
        configured ==
          /\ last.params = base
          /\ base["startDate"] = START_DATE /\ base["endDate"] = END_DATE
          /\ last.startLabel = SAFE_START /\ last.endLabel = SAFE_END
          /\ last.file # <<>> =>
               last.file[1] = FilePath(def, last.classCode, SAFE_START, SAFE_END)
          /\ last.meta # <<>> =>
               last.meta[1].startDate = START_DATE /\ last.meta[1].endDate = END_DATE
        overridden ==
          /\ last.window # <<>>
          /\ last.params = [base EXCEPT !["startDate"] = last.window[1], !["endDate"] = TODAY]
          /\ last.startLabel = safe_date_for_name(last.window[1])
          /\ last.endLabel = safe_date_for_name(TODAY)
          /\ last.meta # <<>> =>
               last.meta[1].startDate = last.window[1] /\ last.meta[1].endDate = TODAY
    IN /\ Len(last.http) = 2
       /\ last.http[1].kind = "probe"
       /\ req.kind = "report" /\ req.hasParams /\ req.params = last.params
       /\ ProbeFails(last.probe) => configured
       /\ configured \/ overridden

\* C10 witness: the probe was answered with JSON that yields no window, and the
\* student quiz report was requested and saved under the configured dates
C10_Witness ==
  /\ last.report = SQR
  /\ last.stage = "saved"
  /\ last.probe.net = "ok" /\ last.probe.jsonOk
  /\ ProbeFails(last.probe)
  /\ last.meta[1].startDate = START_DATE

\* C11: a window the probe resolves is in force only in the invocation whose own
\* probe resolved it.  Every invocation whose probe resolved none, whatever the
\* invocations before it did, sends the parameters build_params makes from the
\* configured range, names its file with the labels of the configured range and
\* records the configured dates; an invocation with a window in force is a
\* student quiz invocation and the window is the one its own probe resolved.
C11_WindowAffectsOnlyItsInvocation ==
  (last.inv > 0 /\ last.stage # "params_error") =>
    LET report == Lookup(last.report)[1]
        bp == build_params(report, last.classCode, last.subjectCode)
    IN IF last.window = <<>>
       THEN /\ last.params = bp.params
            /\ last.startLabel = safe_date_for_name(START_DATE)
            /\ last.endLabel = safe_date_for_name(END_DATE)
            /\ \A i \in DOMAIN last.http :
                 (last.http[i].kind = "report" /\ last.http[i].hasParams)
                   => last.http[i].params = bp.params
            /\ \A i \in DOMAIN last.file :
                 last.file[i] = FilePath(report, last.classCode, SAFE_START, SAFE_END)
            /\ \A i \in DOMAIN last.meta :
                 last.meta[i].startDate = START_DATE /\ last.meta[i].endDate = END_DATE
       ELSE /\ last.report = SQR
            /\ last.window = ResolveWindow(last.probe)

\* a student quiz invocation whose probe resolved the site's window is followed
\* by one whose probe resolved none: the first record carries the window, the
\* second the configured range
C11_Witness ==
  /\ last.inv = 2 /\ last.report = SQR /\ last.window = <<>> /\ last.stage = "saved"
  /\ Len(RUN_MANIFEST) = 2
  /\ RUN_MANIFEST[1].reportName = SQR
  /\ RUN_MANIFEST[1].startDate = SITE_START /\ RUN_MANIFEST[1].endDate = TODAY
  /\ RUN_MANIFEST[2].startDate = START_DATE /\ RUN_MANIFEST[2].endDate = END_DATE
  /\ RUN_MANIFEST[2].filePath # RUN_MANIFEST[1].filePath

\* the place of a catalogued name in the catalog (its first definition)
CatalogPos(name) ==
  CHOOSE i \in DOMAIN reports :
    reports[i].name = name /\ \A j \in 1..(i - 1) : reports[j].name # name

\* the place of a name in the script's two lists of report names, the table
\* reports first, the catalog's own "Class ..." names last
ClassificationPos(name) ==
  LET order == TABLE_DATA_REPORTS \o OTHER_REPORTS
  IN CHOOSE i \in DOMAIN order : order[i] = name

\* the invocations of one report made so far, in the order they were made
AttemptedRuns(name) ==
  LET mine == SelectSeq(attempts, LAMBDA a : a.report = name)
  IN [k \in DOMAIN mine |-> [class |-> mine[k].class, subject |-> mine[k].subject]]

\* within one report the invocations follow the run plan
RunPlanOrder ==
  \A name \in {attempts[i].report : i \in DOMAIN attempts} :
    IsPrefix(AttemptedRuns(name), RUN_PLAN(name))

\* C12 as claimed: the reports are run, and the manifest's records are grouped,
\* in the order in which the catalog defines the reports, and within a report
\* the invocations follow the run plan.
C12_ReportsInCatalogOrder ==
  /\ \A i, j \in DOMAIN attempts :
       i < j => CatalogPos(attempts[i].report) <= CatalogPos(attempts[j].report)
  /\ \A i, j \in DOMAIN RUN_MANIFEST :
       i < j => CatalogPos(RUN_MANIFEST[i].reportName) <= CatalogPos(RUN_MANIFEST[j].reportName)
  /\ RunPlanOrder

\* C12, amended: the reports are run, and the manifest's records are grouped, in
\* the order of the script's own lists of report names (the table reports,
\* then the other reports, then the catalog's further "Class ..." names),
\* whatever the order of the catalog; within a report the invocations follow
\* the run plan and the records the order of the invocations.
C12_ReportsInClassificationOrder ==
  /\ \A i, j \in DOMAIN attempts :
       i < j => ClassificationPos(attempts[i].report) <= ClassificationPos(attempts[j].report)
  /\ \A i, j \in DOMAIN RUN_MANIFEST :
       i < j => ClassificationPos(RUN_MANIFEST[i].reportName)
                  <= ClassificationPos(RUN_MANIFEST[j].reportName)
  /\ RunPlanOrder
  /\ \A name \in {RUN_MANIFEST[i].reportName : i \in DOMAIN RUN_MANIFEST} :
       LET recs == SelectSeq(RUN_MANIFEST, LAMBDA m : m.reportName = name)
           runs == RUN_PLAN(name)
       IN \A i, j \in DOMAIN recs :
            i < j => \E a, b \in DOMAIN runs :
                       /\ a < b
                       /\ runs[a].class = recs[i].classCode
                       /\ runs[b].class = recs[j].classCode

\* two reports the catalog defines in one order are run, and recorded, in the other
C12_Witness ==
  /\ Len(attempts) = 2 /\ Len(RUN_MANIFEST) = 2
  /\ attempts[1].report # attempts[2].report
  /\ RUN_MANIFEST[1].reportName = attempts[1].report
  /\ RUN_MANIFEST[2].reportName = attempts[2].report
  /\ CatalogPos(attempts[1].report) > CatalogPos(attempts[2].report)

\* C13: the validation of the rows is all or nothing.  A pass of the loop whose
\* extracted value is not a list, or is a list with an element that is not a
\* record, creates no file and no sidecar and appends no record to the
\* manifest; the records among the elements are not written.
C13_RowValidationAllOrNothing ==
  [][last'.values \in {"not_list", "mixed"}
       => /\ disk' = disk
          /\ written' = written
          /\ RUN_MANIFEST' = RUN_MANIFEST
          /\ last'.stage = "no_rows"
          /\ last'.file = <<>> /\ last'.sidecar = <<>> /\ last'.meta = <<>>]_vars

\* the portal answered 200 with a list of one record and one number
C13_Witness ==
  /\ last.values = "mixed" /\ last.status = 200 /\ last.stage = "no_rows"
  /\ \A i \in DOMAIN written : written[i].inv # last.inv

\* C14: a pass of the loop whose extracted value is a list of length zero reaches
\* the writing of the CSV, and when the filesystem lets the file be written the
\* pass creates the file with a header line and no data row and appends exactly
\* one record, of rowCount 0 and of that file, to the manifest.
C14_EmptyResultGivesHeaderOnlyFile ==
  [][(last'.values = "records" /\ last'.rowCount = 0)
       => /\ last'.stage \in {"saved", "write_error", "write_partial"}
          /\ last'.csv = "ok"
               => /\ last'.stage = "saved"
                  /\ last'.header = {}
                  /\ Len(last'.file) = 1
                  /\ written' = Append(written, [path |-> last'.file[1], inv |-> last'.inv])
                  /\ last'.file[1] \in disk'
                  /\ Len(RUN_MANIFEST') = Len(RUN_MANIFEST) + 1
                  /\ SubSeq(RUN_MANIFEST', 1, Len(RUN_MANIFEST)) = RUN_MANIFEST
                  /\ RUN_MANIFEST'[Len(RUN_MANIFEST')].rowCount = 0
                  /\ RUN_MANIFEST'[Len(RUN_MANIFEST')].filePath = last'.file[1]
                  /\ RUN_MANIFEST'[Len(RUN_MANIFEST')].reportName = last'.report]_vars

\* the portal answered 200 with the text "Null", a no-data marker: the file is
\* there and its record counts no row
C14_Witness ==
  /\ last.stage = "saved" /\ last.values = "records" /\ last.rowCount = 0
  /\ last.header = {}
  /\ Len(RUN_MANIFEST) = 1 /\ RUN_MANIFEST[1].rowCount = 0
  /\ RUN_MANIFEST[1].filePath \in disk

\* C15 as claimed: no two invocations of a run resolve to the same file path, so
\* no two of the files written share a path and no two records of the manifest
\* share a filePath.
C15_NoTwoInvocationsSharePath ==
  /\ \A i, j \in DOMAIN written : i < j => written[i].path # written[j].path
  /\ \A i, j \in DOMAIN RUN_MANIFEST :
       i < j => RUN_MANIFEST[i].filePath # RUN_MANIFEST[j].filePath

\* the characters sanitize_filename replaces
UnsafeCharacters == {"/", "\\", ":", "*", "?", "\"", "<", ">", "|"}

\* C16 as claimed: the name of a file written holds none of the characters
\* / \ : * ? " < > |, whatever the template, the class label, the date labels
\* and the school name are.
C16_FilenameHasNoUnsafeCharacter ==
  \A i \in DOMAIN written :
    \A k \in DOMAIN written[i].path : written[i].path[k] \notin UnsafeCharacters

\* C17: a sidecar that cannot be written ends neither the invocation nor the
\* run: the pass still appends its record to the manifest and the loop goes on
\* to the next invocation; and when the loop has ended, the write of the
\* manifest file, whether it succeeds or fails, leaves the script at its normal
\* end.  The script never ends by an exception.
C17_SidecarAndManifestFailuresAreSoft ==
  /\ [](pc # "crashed")
  /\ [][(last'.stage = "saved" /\ ~last'.sidecarOk)
          => /\ last'.sidecar = <<>>
             /\ RUN_MANIFEST' = Append(RUN_MANIFEST, last'.meta[1])
             /\ attempts' = Append(attempts, Planned[Len(attempts) + 1])
             /\ pc' = "loop"
             /\ <<ri', runIdx'>> # <<ri, runIdx>>
             /\ (Len(attempts') < Len(Planned)) <=> (ri' <= Len(LOOP_NAMES))]_vars
  /\ [][(pc = "loop" /\ ri > Len(LOOP_NAMES))
          => /\ pc' = "done"
             /\ manifestWrites' = manifestWrites + 1
             /\ manifestFile' \in {manifestFile, <<RUN_MANIFEST>>}]_vars

\* the sidecar of the first file could not be written, a second invocation was
\* made all the same, and the script ended normally although the manifest file
\* could not be written
C17_Witness ==
  /\ pc = "done" /\ manifestWrites = 1 /\ manifestFile = <<>>
  /\ Len(attempts) = 2
  /\ Len(RUN_MANIFEST) >= 1
  /\ RUN_MANIFEST[1].classCode = attempts[1].class
  /\ RUN_MANIFEST[1].reportName = attempts[1].report
  /\ RUN_MANIFEST[1].filePath \in disk
  /\ SidecarPath(RUN_MANIFEST[1].filePath) \notin disk

\* v is a list of records
IsRecords(v) == v.t = "list" /\ \A i \in DOMAIN v.items : v.items[i].t = "dict"

\* C18 as claimed: in a named-key mode, for an object that lacks the named key
\* and has an alias key whose value decodes to a list of records, extract_values
\* returns a list of records, the decoded value of one of the object's alias keys.
C18_AnyAliasWithRecordsIsFound ==
  (calc.fn = "extract_values" /\ calc.applied
     /\ EXTRACT_MAP(calc.name) \notin {"", "direct_list"})
    => LET obj == decode_maybe_json(calc.arg)
           HasRecords(k) == JHas(obj, k) /\ IsRecords(decode_maybe_json(JGet(obj, k)))
       IN (/\ obj.t = "dict"
           /\ ~JHas(obj, EXTRACT_MAP(calc.name))
           /\ \E k \in Range(ALIAS_KEYS) : HasRecords(k))
            => /\ IsRecords(calc.out)
               /\ \E k \in Range(ALIAS_KEYS) :
                    HasRecords(k) /\ calc.out = decode_maybe_json(JGet(obj, k))

\* C20 as claimed: the cleaned value of a string neither starts nor ends with
\* whitespace or a pipe and holds no two pipes in a row; a value that is no
\* string is returned as it is.
C20_CleanedTextIsTrimmed ==
  (calc.fn = "clean_value" /\ calc.applied)
    => IF calc.arg.t = "str"
       THEN /\ calc.out.t = "str"
            /\ LET r == calc.out.chars
               IN /\ r # <<>> => /\ r[1] \notin Whitespace \cup {"|"}
                                 /\ r[Len(r)] \notin Whitespace \cup {"|"}
                  /\ \A i \in 1..(Len(r) - 1) : ~(r[i] = "|" /\ r[i + 1] = "|")
       ELSE calc.out = calc.arg

\* C18, amended: in a named-key mode, for an object that lacks the named key and
\* has an alias key, extract_values returns the decoded value of the first of
\* the alias keys data, TABLE_DATA, tableData, tableJSON, lessoninfo that the
\* object has, whatever the other alias keys hold: a list of records exactly
\* when that value decodes to one.
C18_FirstAliasPresentIsTaken ==
  (calc.fn = "extract_values" /\ calc.applied
     /\ EXTRACT_MAP(calc.name) \notin {"", "direct_list"})
    => LET obj == decode_maybe_json(calc.arg)
           order == <<"data", "TABLE_DATA", "tableData", "tableJSON", "lessoninfo">>
       IN (/\ obj.t = "dict"
           /\ ~JHas(obj, EXTRACT_MAP(calc.name))
           /\ \E i \in DOMAIN order : JHas(obj, order[i]))
            => LET first == CHOOSE i \in DOMAIN order :
                              JHas(obj, order[i]) /\ \A j \in 1..(i - 1) : ~JHas(obj, order[j])
                   taken == decode_maybe_json(JGet(obj, order[first]))
               IN /\ calc.out = taken
                  /\ IsRecords(calc.out) <=> IsRecords(taken)

\* the named key TABLE_DATA is absent, the alias tableData holds the records and
\* a later alias holds a text: the records are returned
C18_Witness ==
  /\ calc.fn = "extract_values" /\ calc.applied
  /\ EXTRACT_MAP(calc.name) = "TABLE_DATA"
  /\ calc.arg.t = "dict"
  /\ calc.arg.keys = <<"tableData", "lessoninfo">>
  /\ calc.arg.items = <<JList(<<Row>>), JText("n/a")>>
  /\ calc.out = JList(<<Row>>)

\* the requests of one invocation, in the order they were issued
RequestsOf(inv) == SelectSeq(http, LAMBDA q : q.inv = inv)

C21_ExecutedReportsExtractRecords ==
  last.inv > 0
    => /\ EXTRACT_MAP(last.report) # ""
       /\ (last.status = 200 /\ last.shape \in {"records", "wrapped"})
            => /\ last.stage \in {"saved", "write_error", "write_partial"}
               /\ last.csv = "ok" => (last.file # <<>> /\ last.meta # <<>>)

\* C22 as claimed: with a level entry that has no code (no key, an empty code, or
\* null) the script is not ended by an exception, and the level gets no
\* invocation of a per-level report: the table report run per level is invoked
\* only for the levels that have a code.
C22_CodelessLevelNeverAborts ==
  (\E i \in DOMAIN levels : CodeOf(levels[i]) = <<>>)
    => /\ pc # "crashed"
       /\ \A i \in DOMAIN attempts :
            (attempts[i].report = REPORT_NAME_SECTIONS /\ attempts[i].class = <<>>)
              => \A j \in DOMAIN levels : CodeOf(levels[j]) = <<>>

====
